---- MODULE Spec2Model ----
(***************************************************************************)
(* Model of the Notion <-> Markdown blog sync scripts:                      *)
(*   - scripts/sync-from-notion.ts   (the pull pipeline, syncPosts)         *)
(*   - the push script (unnamed/part_000: migrateToNotion)                  *)
(* Text is modelled as a sequence of one-character strings, a multi-line   *)
(* text as the sequence of its lines (what split("\n") yields).            *)
(***************************************************************************)
EXTENDS Integers, Sequences, FiniteSets, TLC

\* ------------------------------------------------------------------ bounds
MaxPages == 3
MaxTime == 2
MaxRuns == 2
MaxFiles == 2
MaxTitleLen == 2
MaxBodyLines == 4

\* ------------------------------------------------------- string primitives
None == "none"

\* an optional value: <<>> when absent (undefined, null), <<v>> when present
Nothing == <<>>
Some(v) == <<v>>
The(opt) == opt[1]

DigitChars == <<"0", "1", "2", "3", "4", "5", "6", "7", "8", "9">>
DigitSet == {DigitChars[i] : i \in 1..10}
IsDigit(c) == c \in DigitSet
DigitVal(c) == (CHOOSE i \in 1..10 : DigitChars[i] = c) - 1

\* String.prototype.startsWith / endsWith / includes
StartsWith(s, p) == Len(s) >= Len(p) /\ SubSeq(s, 1, Len(p)) = p
EndsWith(s, p) == Len(s) >= Len(p) /\ SubSeq(s, Len(s) - Len(p) + 1, Len(s)) = p
Includes(s, sub) ==
    \E k \in 0..(Len(s) - Len(sub)) : SubSeq(s, k + 1, k + Len(sub)) = sub

\* String.prototype.trim (the only white space of the alphabet is the blank)
RECURSIVE TrimLeft(_)
TrimLeft(s) == IF s # <<>> /\ Head(s) = " " THEN TrimLeft(Tail(s)) ELSE s
RECURSIVE TrimRight(_)
TrimRight(s) ==
    IF s # <<>> /\ s[Len(s)] = " " THEN TrimRight(SubSeq(s, 1, Len(s) - 1)) ELSE s
Trim(s) == TrimRight(TrimLeft(s))

\* s.slice(n): drop the first n characters
Slice(s, n) == SubSeq(s, n + 1, Len(s))

\* arr.join(sep) on a sequence of strings
RECURSIVE Join(_, _)
Join(ss, sep) ==
    IF ss = <<>> THEN <<>>
    ELSE IF Len(ss) = 1 THEN ss[1]
    ELSE ss[1] \o sep \o Join(Tail(ss), sep)

\* String(n) for n >= 0
RECURSIVE ToDecimal(_)
ToDecimal(n) ==
    IF n < 10 THEN <<DigitChars[n + 1]>>
    ELSE ToDecimal(n \div 10) \o <<DigitChars[(n % 10) + 1]>>

\* s.padStart(2, "0")
PadStart2(s) == IF Len(s) < 2 THEN <<"0">> \o s ELSE s

\* parseInt(s, 10) on a string of digits
RECURSIVE ParseInt(_)
ParseInt(s) ==
    IF s = <<>> THEN 0
    ELSE 10 * ParseInt(SubSeq(s, 1, Len(s) - 1)) + DigitVal(s[Len(s)])

\* the longest prefix of s made of digits (what ^\d+ matches)
RECURSIVE LeadingDigits(_)
LeadingDigits(s) ==
    IF s # <<>> /\ IsDigit(Head(s)) THEN <<Head(s)>> \o LeadingDigits(Tail(s)) ELSE <<>>

\* ----------------------------------------------------------- generateSlug
LowerOf(c) == IF c = "A" THEN "a" ELSE IF c = "B" THEN "b" ELSE c
ToLowerCase(s) == [i \in 1..Len(s) |-> LowerOf(s[i])]

\* [a-z0-9一-龥]; "han" stands for one CJK character
IsSlugChar(c) == c \in {"a", "b", "han"} \/ IsDigit(c)

\* .replace(/[^a-z0-9一-龥]+/g, "-"): each maximal run becomes one hyphen
RECURSIVE CollapseRuns(_)
CollapseRuns(s) ==
    IF s = <<>> THEN <<>>
    ELSE IF IsSlugChar(Head(s)) THEN <<Head(s)>> \o CollapseRuns(Tail(s))
    ELSE IF Len(s) >= 2 /\ ~IsSlugChar(s[2]) THEN CollapseRuns(Tail(s))
    ELSE <<"-">> \o CollapseRuns(Tail(s))

\* .replace(/^-+|-+$/g, "")
RECURSIVE StripLeadingHyphens(_)
StripLeadingHyphens(s) ==
    IF s # <<>> /\ Head(s) = "-" THEN StripLeadingHyphens(Tail(s)) ELSE s
RECURSIVE StripTrailingHyphens(_)
StripTrailingHyphens(s) ==
    IF s # <<>> /\ s[Len(s)] = "-"
    THEN StripTrailingHyphens(SubSeq(s, 1, Len(s) - 1)) ELSE s

generateSlug(title) ==
    StripTrailingHyphens(StripLeadingHyphens(CollapseRuns(ToLowerCase(title))))

\* ---------------------------------------------------- markdownToNotionBlocks
\* A block: its type, the content of its single rich_text run, and (code blocks
\* only) its language; other blocks carry the empty language.
Block(type, text) == [type |-> type, text |-> text, language |-> <<>>]
CodeBlock(text, language) == [type |-> "code", text |-> text, language |-> language]

\* "bq" stands for the backquote character
Fence == <<"bq", "bq", "bq">>
Newline == <<"\n">>
PlainText == <<"p", "l", "a", "i", "n", " ", "t", "e", "x", "t">>

\* line.match(/^\d+\.\s+(.*)$/): <<the captured text>>, or Nothing
numberedMatch(line) ==
    LET ds == LeadingDigits(line)
        rest == Slice(line, Len(ds))
    IN  IF ds # <<>> /\ Len(rest) >= 2 /\ rest[1] = "." /\ rest[2] = " "
        THEN Some(TrimLeft(Slice(rest, 1)))
        ELSE Nothing

\* Variant of codeEnd: the loop also stops at a blank line.
RECURSIVE codeEndAtBlank(_, _)
codeEndAtBlank(lines, i) ==
    IF i <= Len(lines) /\ ~StartsWith(lines[i], Fence) /\ Trim(lines[i]) # <<>>
    THEN codeEndAtBlank(lines, i + 1) ELSE i

\* "while (i < lines.length && !lines[i].startsWith(fence)) { codeLines.push(lines[i]); i++; }":
\* the value of i when the loop ends
RECURSIVE codeEnd(_, _)
codeEnd(lines, i) ==
    IF i <= Len(lines) /\ ~StartsWith(lines[i], Fence) THEN codeEnd(lines, i + 1) ELSE i

\* One iteration of "while (i < lines.length)" at cursor i (1-based):
\* [rule, next cursor, the blocks it pushes]
scanStep(lines, i) ==
    LET line == lines[i]
    IN  IF Trim(line) = <<>> THEN
            [rule |-> "blank", next |-> i + 1, push |-> <<>>]
        ELSE IF StartsWith(line, <<"#", "#", "#", " ">>) THEN
            [rule |-> "heading_3", next |-> i + 1,
             push |-> <<Block("heading_3", Slice(line, 4))>>]
        ELSE IF StartsWith(line, <<"#", "#", " ">>) THEN
            [rule |-> "heading_2", next |-> i + 1,
             push |-> <<Block("heading_2", Slice(line, 3))>>]
        ELSE IF StartsWith(line, <<"#", " ">>) THEN
            [rule |-> "heading_1", next |-> i + 1,
             push |-> <<Block("heading_1", Slice(line, 2))>>]
        ELSE IF StartsWith(line, Fence) THEN
            LET tag == Trim(Slice(line, 3))
                end == codeEnd(lines, i + 1)
            IN  [rule |-> "code", next |-> end + 1,
                 push |-> <<CodeBlock(Join(SubSeq(lines, i + 1, end - 1), Newline),
                                      IF tag # <<>> THEN tag ELSE PlainText)>>]
        ELSE IF StartsWith(line, <<"-", " ">>) \/ StartsWith(line, <<"*", " ">>) THEN
            [rule |-> "bulleted_list_item", next |-> i + 1,
             push |-> <<Block("bulleted_list_item", Slice(line, 2))>>]
        ELSE IF numberedMatch(line) # Nothing THEN
            [rule |-> "numbered_list_item", next |-> i + 1,
             push |-> <<Block("numbered_list_item", The(numberedMatch(line)))>>]
        ELSE IF StartsWith(line, <<">", " ">>) THEN
            [rule |-> "quote", next |-> i + 1, push |-> <<Block("quote", Slice(line, 2))>>]
        ELSE
            [rule |-> "paragraph", next |-> i + 1, push |-> <<Block("paragraph", line)>>]

\* The iterations of "while (i < lines.length)" whose cursor lies in lo..hi, the
\* first of them at cursor i: [the cursor after the last of them, the blocks they
\* push].  The iterations run in cursor order; the range is halved only to keep
\* the evaluation shallow on long texts.
RECURSIVE scanRange(_, _, _, _)
scanRange(lines, i, lo, hi) ==
    IF i > hi THEN [next |-> i, push |-> <<>>]
    ELSE IF lo = hi THEN
        LET step == scanStep(lines, i) IN [next |-> step.next, push |-> step.push]
    ELSE
        LET mid == (lo + hi) \div 2
            left == scanRange(lines, i, lo, mid)
            right == scanRange(lines, left.next, mid + 1, hi)
        IN  [next |-> right.next, push |-> left.push \o right.push]

\* markdown.split("\n"): the text is given as its lines
markdownToNotionBlocks(lines) == scanRange(lines, 1, 1, Len(lines)).push

\* --------------------------------------------------------- parseFrontmatter
\* A frontmatter value is a string, a boolean, an array of strings, or undefined.
Str(s) == [t |-> "str", v |-> s]
Bool(b) == [t |-> "bool", v |-> b]
Arr(items) == [t |-> "arr", v |-> items]
Undefined == [t |-> "undef", v |-> <<>>]

\* !value
Falsy(value) ==
    \/ value.t = "undef"
    \/ value.t = "str" /\ value.v = <<>>
    \/ value.t = "bool" /\ ~value.v

Dashes == <<"-", "-", "-">>
KeyTitle == <<"t", "i", "t", "l", "e">>
KeyDate == <<"d", "a", "t", "e">>
KeySlug == <<"s", "l", "u", "g">>
KeyTags == <<"t", "a", "g", "s">>
KeyCategories == <<"c", "a", "t", "e", "g", "o", "r", "i", "e", "s">>
KeyDraft == <<"d", "r", "a", "f", "t">>
WordTrue == <<"t", "r", "u", "e">>
WordFalse == <<"f", "a", "l", "s", "e">>

\* s.indexOf(c), 0-based; -1 when absent
RECURSIVE IndexOf(_, _)
IndexOf(s, c) ==
    IF s = <<>> THEN -1
    ELSE IF Head(s) = c THEN 0
    ELSE LET r == IndexOf(Tail(s), c) IN IF r = -1 THEN -1 ELSE r + 1

\* s.split(c)
RECURSIVE Split(_, _)
Split(s, c) ==
    LET k == IndexOf(s, c)
    IN  IF k = -1 THEN <<s>> ELSE <<SubSeq(s, 1, k)>> \o Split(Slice(s, k + 1), c)

\* "Remove quotes if present": value.slice(1, -1) when it starts and ends with the
\* same kind of quote
Quoted(s) ==
    \/ StartsWith(s, <<"\"">>) /\ EndsWith(s, <<"\"">>)
    \/ StartsWith(s, <<"'">>) /\ EndsWith(s, <<"'">>)
Unquote(s) == IF Quoted(s) THEN SubSeq(s, 2, Len(s) - 1) ELSE s

RECURSIVE NonEmpty(_)
NonEmpty(items) ==
    IF items = <<>> THEN <<>>
    ELSE (IF Head(items) # <<>> THEN <<Head(items)>> ELSE <<>>) \o NonEmpty(Tail(items))

\* the value a header line's text after the colon parses to
parseValue(raw) ==
    LET value == Unquote(Trim(raw))
    IN  IF StartsWith(value, <<"[">>) /\ EndsWith(value, <<"]">>)
        THEN LET items == Split(SubSeq(value, 2, Len(value) - 1), ",")
             IN  Arr(NonEmpty([k \in 1..Len(items) |-> Unquote(Trim(items[k]))]))
        ELSE IF value = WordTrue THEN Bool(TRUE)
        ELSE IF value = WordFalse THEN Bool(FALSE)
        ELSE Str(value)

\* the loop over the header lines, for one key: the last assignment wins
RECURSIVE fieldOf(_, _, _)
fieldOf(lines, key, default) ==
    IF lines = <<>> THEN default
    ELSE LET line == lines[Len(lines)]
             colonIndex == IndexOf(line, ":")
         IN  IF colonIndex # -1 /\ Trim(SubSeq(line, 1, colonIndex)) = key
             THEN parseValue(Slice(line, colonIndex + 1))
             ELSE fieldOf(SubSeq(lines, 1, Len(lines) - 1), key, default)

\* /^---\n([\s\S]*?)\n---\n([\s\S]*)$/ on the lines of the file: the index of the
\* line that closes the header, 0 when the text does not match
closingLine(lines) ==
    LET ks == {k \in 3..(Len(lines) - 1) : lines[k] = Dashes}
    IN  IF Len(lines) >= 1 /\ lines[1] = Dashes /\ ks # {}
        THEN CHOOSE k \in ks : \A j \in ks : k <= j
        ELSE 0

\* content.trim(), on the lines of the content
RECURSIVE dropBlankHead(_)
dropBlankHead(lines) ==
    IF lines # <<>> /\ Trim(Head(lines)) = <<>> THEN dropBlankHead(Tail(lines)) ELSE lines
RECURSIVE dropBlankLast(_)
dropBlankLast(lines) ==
    IF lines # <<>> /\ Trim(lines[Len(lines)]) = <<>>
    THEN dropBlankLast(SubSeq(lines, 1, Len(lines) - 1)) ELSE lines
trimText(lines) ==
    LET ls == dropBlankLast(dropBlankHead(lines))
    IN  IF ls = <<>> THEN <<<<>>>>
        ELSE IF Len(ls) = 1 THEN <<Trim(ls[1])>>
        ELSE <<TrimLeft(ls[1])>> \o SubSeq(ls, 2, Len(ls) - 1) \o <<TrimRight(ls[Len(ls)])>>

\* parseFrontmatter(fileContent): [thrown] when no frontmatter is found
parseFrontmatter(lines) ==
    LET k == closingLine(lines)
        header == SubSeq(lines, 2, k - 1)
    IN  IF k = 0
        THEN [thrown |-> TRUE, frontmatter |-> <<>>, content |-> <<>>]
        ELSE [thrown |-> FALSE,
              frontmatter |-> [title |-> fieldOf(header, KeyTitle, Str(<<>>)),
                               date |-> fieldOf(header, KeyDate, Str(<<>>)),
                               slug |-> fieldOf(header, KeySlug, Undefined),
                               tags |-> fieldOf(header, KeyTags, Undefined),
                               categories |-> fieldOf(header, KeyCategories, Undefined)],
              content |-> trimText(SubSeq(lines, k + 1, Len(lines)))]

\* ------------------------------------------------------ generateFrontmatter
\* post.title.replace(/"/g, '\\"')
RECURSIVE escapeQuotes(_)
escapeQuotes(s) ==
    IF s = <<>> THEN <<>>
    ELSE (IF Head(s) = "\"" THEN <<"\\", "\"">> ELSE <<Head(s)>>) \o escapeQuotes(Tail(s))

\* post.tags.map((t) => `'${t}'`).join(", ")
tagList(tags) == Join([k \in 1..Len(tags) |-> <<"'">> \o tags[k] \o <<"'">>], <<",", " ">>)

\* generateFrontmatter(post): the lines of the block
generateFrontmatter(post) ==
    <<Dashes,
      KeyTitle \o <<":", " ", "\"">> \o escapeQuotes(post.title) \o <<"\"">>,
      KeyDate \o <<":", " ">> \o post.date,
      KeySlug \o <<":", " ">> \o post.slug>>
    \o (IF Len(post.tags) > 0
        THEN <<KeyTags \o <<":", " ", "[">> \o tagList(post.tags) \o <<"]">>>>
        ELSE <<>>)
    \o <<KeyDraft \o <<":", " ">> \o WordFalse, Dashes>>

\* ------------------------------------------------------------------- state
VARIABLES
    \* the pull script (sync-from-notion.ts)
    now,              \* the clock (new Date())
    pages,            \* the remote data source: sequence of page records, index = page id
    stateFile,        \* .notion-sync-state.json
    dir,              \* src/content/blog: <<year, name>> of each file |-> what was written
    pc,               \* position of syncPosts ("off": this process is not the pull script)
    lastSyncTime,     \* syncPosts: const lastSyncTime
    currentSyncTime,  \* syncPosts: const currentSyncTime
    hasMore,          \* fetchBlogPosts: let hasMore
    startCursor,      \* fetchBlogPosts: let startCursor
    pending,          \* fetchBlogPosts: response.results not yet iterated
    posts,            \* fetchBlogPosts: const posts
    yearQueue,        \* syncPosts: keys of postsByYear not yet iterated
    yearPosts,        \* syncPosts: posts of the current year not yet written
    existingFiles,    \* syncPosts: const existingFiles
    maxIndex,         \* syncPosts: let maxIndex
    newPostIndex,     \* syncPosts: let newPostIndex
    queries,          \* history: the query calls of this run, [filter, cursor, at]
    hist,             \* history of this run and of the runs before it
    \* the push script (migrateToNotion)
    ppc,              \* position of migrateToNotion ("off": not the push script)
    markdownFiles,    \* migrateToNotion: const markdownFiles, each file as its lines
    fileIdx,          \* migrateToNotion: position of "for (const filePath of markdownFiles)"
    successCount,     \* migrateToNotion: let successCount
    errorCount,       \* migrateToNotion: let errorCount
    blocks,           \* createNotionPage: const blocks
    remainingBlocks,  \* createNotionPage: const remainingBlocks
    appendAt,         \* createNotionPage: the append loop's let i
    calls,            \* history: the requests sent for the current file
    phist,            \* history of the push run
    \* frontmatter written by the pull script and read back by the push script
    fpc, fInput, fRecord, fWritten, fReparsed,
    \* markdownToNotionBlocks, one iteration of its loop at a time
    mpc, mLines, mi, mBlocks, mPrev

pullVars == <<now, pages, stateFile, dir, pc, lastSyncTime, currentSyncTime, hasMore,
              startCursor, pending, posts, yearQueue, yearPosts, existingFiles,
              maxIndex, newPostIndex, queries, hist>>
pushVars == <<ppc, markdownFiles, fileIdx, successCount, errorCount, blocks,
              remainingBlocks, appendAt, calls, phist>>
fmVars == <<fpc, fInput, fRecord, fWritten, fReparsed>>
mdVars == <<mpc, mLines, mi, mBlocks, mPrev>>
vars == <<pullVars, pushVars, fmVars, mdVars>>
notPull == <<pushVars, fmVars, mdVars>>
notPush == <<pullVars, fmVars, mdVars>>
notFm == <<pullVars, pushVars, mdVars>>
notMd == <<pullVars, pushVars, fmVars>>

\* ------------------------------------------------------------ remote pages
\* A date is <<year, day>>; Nothing when the property is empty.
Dates == {<<1, 1>>, <<1, 2>>, <<2, 1>>}
getTime(d) == d[1] * 100 + d[2]
getYearFromDate(d) == d[1]

\* The page property sets the remote data source may hold.
PageKinds ==
    { [title |-> <<"A">>, slug |-> <<>>, published |-> <<1, 1>>, created |-> Nothing],
      [title |-> <<"A", "!", "B">>, slug |-> <<>>, published |-> <<1, 2>>, created |-> Nothing],
      [title |-> <<"A">>, slug |-> <<"b">>, published |-> Nothing, created |-> <<2, 1>>],
      [title |-> <<>>, slug |-> <<"b">>, published |-> <<1, 1>>, created |-> Nothing],
      [title |-> <<"B">>, slug |-> <<>>, published |-> Nothing, created |-> Nothing],
      [title |-> <<"!">>, slug |-> <<>>, published |-> <<1, 1>>, created |-> Nothing] }

\* Number of results the remote returns per query call.
PageSize == 2

\* filter: { timestamp: "last_edited_time", last_edited_time: { after: T } } or undefined
Matches(filter, p) == filter = Nothing \/ p.edited > The(filter)

\* sorts: [{ property: "Published", direction: "descending" }], empty values last,
\* ties in page-id order
SortKey(p) == IF p.published = Nothing THEN 0 ELSE getTime(p.published)
RECURSIVE InsertDescending(_, _)
InsertDescending(ids, id) ==
    IF ids = <<>> THEN <<id>>
    ELSE IF SortKey(pages[Head(ids)]) >= SortKey(pages[id])
         THEN <<Head(ids)>> \o InsertDescending(Tail(ids), id)
         ELSE <<id>> \o ids
RECURSIVE SortDescending(_, _)
SortDescending(ids, acc) ==
    IF ids = <<>> THEN acc
    ELSE SortDescending(Tail(ids), InsertDescending(acc, Head(ids)))
RECURSIVE SelectIds(_, _)
SelectIds(n, filter) ==
    IF n = 0 THEN <<>>
    ELSE SelectIds(n - 1, filter)
         \o (IF Matches(filter, pages[n]) THEN <<n>> ELSE <<>>)

\* notion.dataSources.query({ start_cursor, filter, sorts })
QueryResponse(filter, cursor) ==
    LET all == SortDescending(SelectIds(Len(pages), filter), <<>>)
        last == IF cursor + PageSize < Len(all) THEN cursor + PageSize ELSE Len(all)
    IN  [results |-> [k \in 1..(last - cursor) |->
                        [id |-> all[cursor + k]] @@ pages[all[cursor + k]]],
         has_more |-> last < Len(all),
         next_cursor |-> last]

\* ------------------------------------------------------- pull: sync state
NoFile == [kind |-> "absent"]
CorruptFile == [kind |-> "corrupt"]
JsonFile(t) == [kind |-> "json", lastSyncTime |-> t]

\* Variant of loadSyncState: without the try/catch, a corrupt file throws.
loadSyncStateUncaught(file) ==
    [thrown |-> file.kind = "corrupt",
     state  |-> IF file.kind = "json" THEN Some(file) ELSE Nothing]

\* loadSyncState: the parsed object, or null when the file is absent or when
\* reading or parsing it throws (caught inside).  [thrown] is what escapes.
loadSyncState(file) ==
    [thrown |-> FALSE,
     state  |-> IF file.kind = "json" THEN Some(file) ELSE Nothing]

\* syncState?.lastSyncTime
lastSyncTimeOf(syncState) ==
    IF syncState = Nothing THEN Nothing ELSE The(syncState).lastSyncTime

\* fetchBlogPosts: const filter = lastSyncTime ? {... after: lastSyncTime} : undefined
fetchFilter(t) == IF t # Nothing THEN t ELSE Nothing

\* saveSyncState({ lastSyncTime: currentSyncTime })
saveSyncState(t) == JsonFile(Some(t))

\* --------------------------------------------------- pull: file bookkeeping
MdSuffix == <<".", "m", "d">>
Md(name) == name \o MdSuffix

\* the content directories the script may start from
InitDirs ==
    { [f \in {} |-> [id |-> 0, slug |-> <<>>]],
      [f \in { <<1, Md(<<"0", "5", "-", "b">>)>>, <<1, <<"b", ".", "t", "x", "t">>>> }
          |-> [id |-> 0, slug |-> <<>>]] }

\* fs.readdirSync(yearDir).filter(f => f.endsWith('.md'))
readMdFiles(d, year) ==
    {f[2] : f \in {g \in DOMAIN d : g[1] = year /\ EndsWith(g[2], MdSuffix)}}

\* file.match(/^(\d+)-/): the digits matched, <<>> when there is no match
IndexMatch(file) ==
    LET ds == LeadingDigits(file)
    IN  IF ds # <<>> /\ Len(file) > Len(ds) /\ file[Len(ds) + 1] = "-" THEN ds ELSE <<>>

\* Variant of highestIndex: the number of files instead of the highest prefix.
highestIndexAsCount(files, acc) == Cardinality(files)

\* the loop "for (const file of existingFiles) ... if (index > maxIndex) maxIndex = index"
RECURSIVE highestIndex(_, _)
highestIndex(files, acc) ==
    IF files = {} THEN acc
    ELSE LET file == CHOOSE f \in files : TRUE
             m == IndexMatch(file)
             index == ParseInt(m)
         IN  highestIndex(files \ {file},
                          IF m # <<>> /\ index > acc THEN index ELSE acc)

\* `${String(maxIndex + newPostIndex + 1).padStart(2, "0")}-${post.slug}.md`
newFilename(max, k, slug) ==
    PadStart2(ToDecimal(max + k + 1)) \o <<"-">> \o slug \o MdSuffix

\* yearPosts.sort((a, b) => getTime(a.date) - getTime(b.date)): stable, ascending
RECURSIVE InsertAscending(_, _)
InsertAscending(ps, p) ==
    IF ps = <<>> THEN <<p>>
    ELSE IF getTime(Head(ps).date) <= getTime(p.date)
         THEN <<Head(ps)>> \o InsertAscending(Tail(ps), p)
         ELSE <<p>> \o ps
RECURSIVE sortByDate(_, _)
sortByDate(ps, acc) ==
    IF ps = <<>> THEN acc ELSE sortByDate(Tail(ps), InsertAscending(acc, Head(ps)))

\* postsByYear: the years in order of first appearance, and each year's posts
RECURSIVE yearsOf(_, _)
yearsOf(ps, acc) ==
    IF ps = <<>> THEN acc
    ELSE LET y == getYearFromDate(Head(ps).date)
         IN  yearsOf(Tail(ps),
                     IF \E k \in 1..Len(acc) : acc[k] = y THEN acc ELSE Append(acc, y))
RECURSIVE postsOfYear(_, _)
postsOfYear(ps, y) ==
    IF ps = <<>> THEN <<>>
    ELSE (IF getYearFromDate(Head(ps).date) = y THEN <<Head(ps)>> ELSE <<>>)
         \o postsOfYear(Tail(ps), y)

\* existingFiles.find(f => f.includes(post.slug)): the candidates; which one comes
\* first depends on the order readdirSync lists the directory in
slugMatches(files, slug) == {f \in files : Includes(f, slug)}

\* const date = publishedDate || createdTime
pageDate(page) == IF page.published # Nothing THEN page.published ELSE page.created

\* if (!title || !date)
missingTitleOrDate(page) == page.title = <<>> \/ pageDate(page) = Nothing

\* posts.push({ id, title, slug: slug || generateSlug(title), date, ... })
toPost(page) ==
    [id |-> page.id, title |-> page.title,
     slug |-> IF page.slug # <<>> THEN page.slug ELSE generateSlug(page.title),
     date |-> pageDate(page)]

\* ------------------------------------------------------------ environment
\* The clock and the remote data source change at any time.  A run reads them only
\* when it starts and when it issues a query call, so a change at any other moment
\* of a run leaves it as the same change made right after the run does: only the
\* steps between runs and the steps just before a query call are taken.
EnvironmentMayStep == pc = "idle" \/ (pc = "query" /\ hasMore /\ pending = <<>>)

\* the clock advances
Tick ==
    /\ EnvironmentMayStep
    /\ now < MaxTime
    /\ now' = now + 1
    /\ UNCHANGED notPull
    /\ UNCHANGED <<pages, stateFile, dir, pc, lastSyncTime, currentSyncTime, hasMore,
                   startCursor, pending, posts, yearQueue, yearPosts, existingFiles,
                   maxIndex, newPostIndex, queries, hist>>

\* somebody creates a page in the data source
CreatePage ==
    /\ EnvironmentMayStep
    /\ Len(pages) < MaxPages
    /\ \E kind \in PageKinds : pages' = Append(pages, kind @@ [edited |-> now])
    /\ UNCHANGED notPull
    /\ UNCHANGED <<now, stateFile, dir, pc, lastSyncTime, currentSyncTime, hasMore,
                   startCursor, pending, posts, yearQueue, yearPosts, existingFiles,
                   maxIndex, newPostIndex, queries, hist>>

\* somebody edits a page: its last_edited_time becomes the current instant
EditPage ==
    /\ EnvironmentMayStep
    /\ \E id \in 1..Len(pages) :
          /\ pages[id].edited # now
          /\ pages' = [pages EXCEPT ![id].edited = now]
    /\ UNCHANGED notPull
    /\ UNCHANGED <<now, stateFile, dir, pc, lastSyncTime, currentSyncTime, hasMore,
                   startCursor, pending, posts, yearQueue, yearPosts, existingFiles,
                   maxIndex, newPostIndex, queries, hist>>

\* ------------------------------------------------------- pull: syncPosts
\* syncPosts, up to the call of fetchBlogPosts
StartPull ==
    /\ pc = "idle"
    /\ hist.runs < MaxRuns
    /\ LET loaded == loadSyncState(stateFile)
       IN  /\ pc' = IF loaded.thrown THEN "failed" ELSE "query"
           /\ lastSyncTime' = lastSyncTimeOf(loaded.state)
           /\ hist' = [hist EXCEPT !.runs = @ + 1, !.stateAtStart = stateFile,
                                   !.dirAtStart = dir, !.runStart = now,
                                   !.stateWrites = 0, !.fileWrites = 0,
                                   !.writesAtSave = 0, !.returned = {},
                                   !.skipped = {}, !.created = <<>>, !.nPosts = 0,
                                   !.failCause = IF loaded.thrown THEN "load" ELSE None]
    /\ currentSyncTime' = now
    /\ hasMore' = TRUE
    /\ startCursor' = 0
    /\ pending' = <<>>
    /\ posts' = <<>>
    /\ queries' = <<>>
    /\ yearQueue' = <<>>
    /\ yearPosts' = <<>>
    /\ existingFiles' = {}
    /\ maxIndex' = 0
    /\ newPostIndex' = 0
    /\ UNCHANGED notPull
    /\ UNCHANGED <<now, pages, stateFile, dir>>

\* one iteration of "while (hasMore)": the query call returns
Query ==
    /\ pc = "query" /\ hasMore /\ pending = <<>>
    /\ LET filter == fetchFilter(lastSyncTime)
           response == QueryResponse(filter, startCursor)
       IN  /\ queries' = Append(queries, [filter |-> filter, cursor |-> startCursor,
                                          at |-> now])
           /\ pending' = response.results
           /\ hasMore' = response.has_more
           /\ startCursor' = response.next_cursor
           /\ hist' = [hist EXCEPT !.returned =
                          @ \cup {response.results[k].id : k \in 1..Len(response.results)}]
    /\ UNCHANGED notPull
    /\ UNCHANGED <<now, pages, stateFile, dir, pc, lastSyncTime, currentSyncTime, posts,
                   yearQueue, yearPosts, existingFiles, maxIndex, newPostIndex>>

\* the process is gone, and its local variables with it
LocalsGone ==
    /\ lastSyncTime' = Nothing
    /\ currentSyncTime' = 0
    /\ hasMore' = FALSE
    /\ startCursor' = 0
    /\ pending' = <<>>
    /\ posts' = <<>>
    /\ yearQueue' = <<>>
    /\ yearPosts' = <<>>
    /\ existingFiles' = {}
    /\ maxIndex' = 0
    /\ newPostIndex' = 0

\* the run throws: nothing catches it inside syncPosts, and the process exits
Abort(cause) ==
    /\ pc' = "failed"
    /\ hist' = [hist EXCEPT !.failCause = cause]
    /\ LocalsGone
    /\ UNCHANGED notPull
    /\ UNCHANGED <<now, pages, stateFile, dir, queries>>

\* the query call throws
QueryThrows ==
    /\ pc = "query" /\ hasMore /\ pending = <<>>
    /\ Abort("query")

\* The skip branch of fetchBlogPosts is "console.warn(...); continue;": the pull
\* script declares no error counter and increments none. What a pull run counts:
pullErrorCount == 0

\* "for (const page of response.results)": a page without title or date
SkipPage ==
    /\ pc = "query" /\ pending # <<>>
    /\ missingTitleOrDate(Head(pending))
    /\ pending' = Tail(pending)
    /\ hist' = [hist EXCEPT !.skipped = @ \cup {Head(pending).id}]
    /\ UNCHANGED notPull
    /\ UNCHANGED <<now, pages, stateFile, dir, pc, lastSyncTime, currentSyncTime, hasMore,
                   startCursor, posts, yearQueue, yearPosts, existingFiles, maxIndex,
                   newPostIndex, queries>>

\* ... a page with both: converted to Markdown and pushed to posts
ConvertPage ==
    /\ pc = "query" /\ pending # <<>>
    /\ ~missingTitleOrDate(Head(pending))
    /\ posts' = Append(posts, toPost(Head(pending)))
    /\ pending' = Tail(pending)
    /\ UNCHANGED notPull
    /\ UNCHANGED <<now, pages, stateFile, dir, pc, lastSyncTime, currentSyncTime, hasMore,
                   startCursor, yearQueue, yearPosts, existingFiles, maxIndex,
                   newPostIndex, queries, hist>>

\* ... n2m.pageToMarkdown throws
ConvertThrows ==
    /\ pc = "query" /\ pending # <<>>
    /\ ~missingTitleOrDate(Head(pending))
    /\ Abort("convert")

\* Variant of SaveAndReturn: saves the instant of saving, not currentSyncTime.
SaveAndReturnLate ==
    /\ stateFile' = saveSyncState(now)
    /\ pc' = "done"
    /\ hist' = [hist EXCEPT !.stateWrites = @ + 1, !.writesAtSave = hist.fileWrites,
                            !.lastSuccessStart = hist.runStart, !.nPosts = Len(posts)]
    /\ LocalsGone
    /\ UNCHANGED notPull
    /\ UNCHANGED <<now, pages, dir, queries>>

\* writing the state file, as the last statement of a run
SaveAndReturn ==
    /\ stateFile' = saveSyncState(currentSyncTime)
    /\ pc' = "done"
    /\ hist' = [hist EXCEPT !.stateWrites = @ + 1, !.writesAtSave = hist.fileWrites,
                            !.lastSuccessStart = hist.runStart, !.nPosts = Len(posts)]
    /\ LocalsGone
    /\ UNCHANGED notPull
    /\ UNCHANGED <<now, pages, dir, queries>>

\* if (posts.length === 0) { saveSyncState(...); return; }
NoPosts ==
    /\ pc = "query" /\ ~hasMore /\ pending = <<>>
    /\ posts = <<>>
    /\ SaveAndReturn

\* "Group posts by year"
GroupByYear ==
    /\ pc = "query" /\ ~hasMore /\ pending = <<>>
    /\ posts # <<>>
    /\ yearQueue' = yearsOf(posts, <<>>)
    /\ pc' = "year"
    /\ UNCHANGED notPull
    /\ UNCHANGED <<now, pages, stateFile, dir, lastSyncTime, currentSyncTime, hasMore,
                   startCursor, pending, posts, yearPosts, existingFiles, maxIndex,
                   newPostIndex, queries, hist>>

\* "for (const [year, yearPosts] of postsByYear)": up to the inner loop
BeginYear ==
    /\ pc = "year" /\ yearQueue # <<>>
    /\ LET year == Head(yearQueue)
           files == readMdFiles(dir, year)
       IN  /\ existingFiles' = files
           /\ maxIndex' = highestIndex(files, 0)
           /\ yearPosts' = sortByDate(postsOfYear(posts, year), <<>>)
    /\ newPostIndex' = 0
    /\ pc' = "write"
    /\ UNCHANGED notPull
    /\ UNCHANGED <<now, pages, stateFile, dir, lastSyncTime, currentSyncTime, hasMore,
                   startCursor, pending, posts, yearQueue, queries, hist>>

\* mkdirSync or readdirSync throws
BeginYearThrows ==
    /\ pc = "year" /\ yearQueue # <<>>
    /\ Abort("mkdir")

\* what one iteration of the inner loop leaves, having written `name`
Written(year, name, post, isNew) ==
    /\ dir' = [f \in DOMAIN dir \cup {<<year, name>>} |->
                  IF f = <<year, name>> THEN [id |-> post.id, slug |-> post.slug]
                  ELSE dir[f]]
    /\ newPostIndex' = IF isNew THEN newPostIndex + 1 ELSE newPostIndex
    /\ hist' = [hist EXCEPT !.fileWrites = @ + 1,
                            !.created = IF isNew
                                        THEN Append(@, [year |-> year, name |-> name,
                                                        date |-> post.date,
                                                        slug |-> post.slug])
                                        ELSE @]
    /\ yearPosts' = Tail(yearPosts)
    /\ IF Tail(yearPosts) = <<>>
       THEN pc' = "year" /\ yearQueue' = Tail(yearQueue)
       ELSE pc' = "write" /\ yearQueue' = yearQueue
    /\ UNCHANGED notPull
    /\ UNCHANGED <<now, pages, stateFile, lastSyncTime, currentSyncTime, hasMore,
                   startCursor, pending, posts, existingFiles, maxIndex, queries>>

\* one iteration of "for (let i = 0; i < yearPosts.length; i++)"
WriteFile ==
    /\ pc = "write" /\ yearPosts # <<>>
    /\ LET post == Head(yearPosts)
           year == Head(yearQueue)
           found == slugMatches(existingFiles, post.slug)
       IN  IF found # {}
           THEN \E existingSlugFile \in found : Written(year, existingSlugFile, post, FALSE)
           ELSE Written(year, newFilename(maxIndex, newPostIndex, post.slug), post, TRUE)

\* Variant of WriteThrows: the state is saved although the write threw.
WriteThrowsSavingState ==
    /\ pc = "write" /\ yearPosts # <<>>
    /\ stateFile' = saveSyncState(currentSyncTime)
    /\ pc' = "failed"
    /\ hist' = [hist EXCEPT !.failCause = "write", !.stateWrites = @ + 1]
    /\ LocalsGone
    /\ UNCHANGED notPull
    /\ UNCHANGED <<now, pages, dir, queries>>

\* writeFileSync of a post throws
WriteThrows ==
    /\ pc = "write" /\ yearPosts # <<>>
    /\ Abort("write")

\* "Save sync state after successful sync"
SaveState ==
    /\ pc = "year" /\ yearQueue = <<>>
    /\ SaveAndReturn

\* writeFileSync of the state file throws
SaveThrows ==
    /\ \/ pc = "year" /\ yearQueue = <<>>
       \/ pc = "query" /\ ~hasMore /\ pending = <<>> /\ posts = <<>>
    /\ Abort("save")

\* A run ends with pc = "done" (syncPosts returned) or "failed" (it threw, and the
\* top-level catch calls process.exit(1)); the script may then be run again.
ProcessExit ==
    /\ pc \in {"done", "failed"}
    /\ pc' = "idle"
    /\ queries' = <<>>
    /\ hist' = [hist EXCEPT !.stateAtStart = NoFile, !.dirAtStart = dir, !.runStart = 0,
                            !.stateWrites = 0, !.fileWrites = 0, !.writesAtSave = 0,
                            !.returned = {}, !.skipped = {}, !.created = <<>>,
                            !.nPosts = 0, !.failCause = None]
    /\ UNCHANGED notPull
    /\ UNCHANGED <<now, pages, stateFile, dir, lastSyncTime, currentSyncTime, hasMore,
                   startCursor, pending, posts, yearQueue, yearPosts, existingFiles,
                   maxIndex, newPostIndex>>

PullStart(files, dirs, at) ==
    /\ now = 1
    /\ pages = <<>>
    /\ stateFile \in files
    /\ dir \in dirs
    /\ pc = at
    /\ lastSyncTime = Nothing
    /\ currentSyncTime = 0
    /\ hasMore = FALSE
    /\ startCursor = 0
    /\ pending = <<>>
    /\ posts = <<>>
    /\ yearQueue = <<>>
    /\ yearPosts = <<>>
    /\ existingFiles = {}
    /\ maxIndex = 0
    /\ newPostIndex = 0
    /\ queries = <<>>
    /\ hist = [runs |-> 0, stateAtStart |-> NoFile, dirAtStart |-> dir, runStart |-> 0,
               stateWrites |-> 0, fileWrites |-> 0, writesAtSave |-> 0,
               lastSuccessStart |-> 0, returned |-> {}, skipped |-> {},
               created |-> <<>>, nPosts |-> 0, failCause |-> None]

\* the process is the pull script, before its first run
PullInit == PullStart({NoFile, CorruptFile}, InitDirs, "idle")
\* the process is not the pull script
PullOff == PullStart({NoFile}, {[f \in {} |-> [id |-> 0, slug |-> <<>>]]}, "off")

\* ------------------------------------------------- push: createNotionPage
\* "const firstChunk = blocks.slice(0, 100); const remainingBlocks = blocks.slice(100);"
FirstChunkSize == 100
\* "const chunkSize = 100;"
ChunkSize == 100

\* arr.slice(from, to), 0-based, to exclusive and clamped
SliceSeq(arr, from, to) == SubSeq(arr, from + 1, IF to < Len(arr) THEN to ELSE Len(arr))

\* Variant of remainingOf: blocks.slice(101)
remainingOfOffByOne(bs) == SliceSeq(bs, FirstChunkSize + 1, Len(bs))

firstChunkOf(bs) == SliceSeq(bs, 0, FirstChunkSize)
remainingOf(bs) == SliceSeq(bs, FirstChunkSize, Len(bs))
\* remainingBlocks.slice(i, i + chunkSize)
chunkAt(rest, i) == SliceSeq(rest, i, i + ChunkSize)
\* i += chunkSize
nextChunkAt(i) == i + ChunkSize

\* What createNotionPage computes before its first request throws a TypeError on:
\* spreading a boolean (tags: true), or .split on a date that is no string.
Spreadable(value) == Falsy(value) \/ value.t \in {"str", "arr"}
propertiesThrow(fm) ==
    \/ ~Spreadable(fm.tags)
    \/ ~Spreadable(fm.categories)
    \/ fm.date.t # "str"

\* ---------------------------------------------------- push: the local files
Header(titleLine, dateLine) == <<Dashes>> \o titleLine \o dateLine \o <<Dashes>>
TitleLine == <<KeyTitle \o <<":", " ", "\"", "T", "\"">>>>
DateLine == <<KeyDate \o <<":", " ", "2", "4", "-", "0", "1">>>>
\* n paragraphs "p1", "p2", ...
Paragraphs(n) == [k \in 1..n |-> <<"p">> \o ToDecimal(k)]

\* a post whose body converts to n blocks
PostFile(n) == Header(TitleLine, DateLine) \o <<<<>>>> \o Paragraphs(n) \o <<<<>>>>
\* a post with a heading, a fenced code block and a list item
MixedFile ==
    Header(TitleLine, DateLine)
    \o <<<<"#", " ", "h">>, <<"bq", "bq", "bq", "j", "s">>, <<"x">>, <<"bq", "bq", "bq">>,
         <<"-", " ", "i">>>>
NoFrontmatterFile == <<<<"h", "i">>, <<>>>>
NoTitleFile == Header(<<>>, DateLine) \o <<<<"x">>>>
EmptyDateFile == Header(TitleLine, <<KeyDate \o <<":">>>>) \o <<<<"x">>>>
BooleanDateFile == Header(TitleLine, <<KeyDate \o <<":", " ">> \o WordTrue>>) \o <<<<"x">>>>

BlockCounts == {0, 2, FirstChunkSize, FirstChunkSize + 1, FirstChunkSize + ChunkSize + 50}
PushFiles ==
    {PostFile(n) : n \in BlockCounts}
    \cup {MixedFile, NoFrontmatterFile, NoTitleFile, EmptyDateFile, BooleanDateFile}

RECURSIVE SeqsUpTo(_, _)
SeqsUpTo(S, n) ==
    IF n = 0 THEN {<<>>}
    ELSE LET shorter == SeqsUpTo(S, n - 1)
         IN  shorter \cup {Append(q, x) : q \in shorter, x \in S}

\* --------------------------------------------------- push: migrateToNotion
\* "for (const filePath of markdownFiles)": on to the next file
NextFile(outcome) ==
    /\ fileIdx' = fileIdx + 1
    /\ ppc' = IF fileIdx + 1 > Len(markdownFiles) THEN "done" ELSE "loop"
    /\ phist' = [phist EXCEPT !.outcomes = Append(@, outcome)]

\* "catch (error) { ...; errorCount++; }"
Caught ==
    /\ errorCount' = errorCount + 1
    /\ NextFile("error")
    /\ UNCHANGED successCount

\* "successCount++", then the 500 ms delay
Succeeded ==
    /\ successCount' = successCount + 1
    /\ NextFile("success")
    /\ UNCHANGED errorCount

\* getAllMarkdownFiles returns
StartPush ==
    /\ ppc = "idle"
    /\ ppc' = IF markdownFiles = <<>> THEN "done" ELSE "loop"
    /\ fileIdx' = 1
    /\ UNCHANGED notPush
    /\ UNCHANGED <<markdownFiles, successCount, errorCount, blocks, remainingBlocks,
                   appendAt, calls, phist>>

\* getAllMarkdownFiles throws (readdirSync): migrateToNotion rejects
ScanThrows ==
    /\ ppc = "idle"
    /\ ppc' = "failed"
    /\ UNCHANGED notPush
    /\ UNCHANGED <<markdownFiles, fileIdx, successCount, errorCount, blocks,
                   remainingBlocks, appendAt, calls, phist>>

Parsed == parseFrontmatter(markdownFiles[fileIdx])
MissingTitleOrDate(fm) == Falsy(fm.title) \/ Falsy(fm.date)

\* readFileSync throws
ReadThrows ==
    /\ ppc = "loop"
    /\ Caught
    /\ UNCHANGED notPush
    /\ UNCHANGED <<markdownFiles, blocks, remainingBlocks, appendAt, calls>>

\* parseFrontmatter throws: no frontmatter found
ParseThrows ==
    /\ ppc = "loop"
    /\ Parsed.thrown
    /\ Caught
    /\ UNCHANGED notPush
    /\ UNCHANGED <<markdownFiles, blocks, remainingBlocks, appendAt, calls>>

\* "if (!frontmatter.title || !frontmatter.date) { ...; errorCount++; continue; }"
SkipFile ==
    /\ ppc = "loop"
    /\ ~Parsed.thrown
    /\ MissingTitleOrDate(Parsed.frontmatter)
    /\ errorCount' = errorCount + 1
    /\ fileIdx' = fileIdx + 1
    /\ ppc' = IF fileIdx + 1 > Len(markdownFiles) THEN "done" ELSE "loop"
    /\ phist' = [phist EXCEPT !.outcomes = Append(@, "error"),
                              !.skipped = @ \cup {fileIdx}]
    /\ UNCHANGED notPush
    /\ UNCHANGED <<markdownFiles, successCount, blocks, remainingBlocks, appendAt, calls>>

\* createNotionPage throws before it sends anything
PropertiesThrow ==
    /\ ppc = "loop"
    /\ ~Parsed.thrown
    /\ ~MissingTitleOrDate(Parsed.frontmatter)
    /\ propertiesThrow(Parsed.frontmatter)
    /\ Caught
    /\ UNCHANGED notPush
    /\ UNCHANGED <<markdownFiles, blocks, remainingBlocks, appendAt, calls>>

CanPublish ==
    /\ ppc = "loop"
    /\ ~Parsed.thrown
    /\ ~MissingTitleOrDate(Parsed.frontmatter)
    /\ ~propertiesThrow(Parsed.frontmatter)

\* createNotionPage up to the page-creation request, which succeeds
CreateRequest ==
    /\ CanPublish
    /\ LET bs == markdownToNotionBlocks(Parsed.content)
       IN  /\ blocks' = bs
           /\ remainingBlocks' = remainingOf(bs)
           /\ calls' = <<[kind |-> "create", children |-> firstChunkOf(bs)]>>
           /\ appendAt' = 0
           /\ IF 0 < Len(remainingOf(bs))
              THEN /\ ppc' = "append"
                   /\ phist' = [phist EXCEPT !.created = @ \cup {fileIdx},
                                             !.callsFor = fileIdx]
                   /\ UNCHANGED <<fileIdx, successCount, errorCount>>
              ELSE /\ successCount' = successCount + 1
                   /\ fileIdx' = fileIdx + 1
                   /\ ppc' = IF fileIdx + 1 > Len(markdownFiles) THEN "done" ELSE "loop"
                   /\ phist' = [phist EXCEPT !.outcomes = Append(@, "success"),
                                             !.created = @ \cup {fileIdx},
                                             !.callsFor = fileIdx]
                   /\ UNCHANGED errorCount
    /\ UNCHANGED notPush
    /\ UNCHANGED markdownFiles

\* ... the page-creation request fails: notionRequest throws
CreateRequestFails ==
    /\ CanPublish
    /\ LET bs == markdownToNotionBlocks(Parsed.content)
       IN  /\ blocks' = bs
           /\ remainingBlocks' = remainingOf(bs)
           /\ calls' = <<[kind |-> "create", children |-> firstChunkOf(bs)]>>
    /\ appendAt' = 0
    /\ errorCount' = errorCount + 1
    /\ fileIdx' = fileIdx + 1
    /\ ppc' = IF fileIdx + 1 > Len(markdownFiles) THEN "done" ELSE "loop"
    /\ phist' = [phist EXCEPT !.outcomes = Append(@, "error"), !.callsFor = fileIdx]
    /\ UNCHANGED notPush
    /\ UNCHANGED <<markdownFiles, successCount>>

\* one iteration of "for (let i = 0; i < remainingBlocks.length; i += chunkSize)"
AppendRequest ==
    /\ ppc = "append"
    /\ calls' = Append(calls, [kind |-> "append",
                               children |-> chunkAt(remainingBlocks, appendAt)])
    /\ appendAt' = nextChunkAt(appendAt)
    /\ IF nextChunkAt(appendAt) < Len(remainingBlocks)
       THEN UNCHANGED <<ppc, fileIdx, successCount, errorCount, phist>>
       ELSE Succeeded
    /\ UNCHANGED notPush
    /\ UNCHANGED <<markdownFiles, blocks, remainingBlocks>>

\* Variant of AppendRequestFails: the error is not caught per file.
AppendRequestRethrows ==
    /\ ppc = "append"
    /\ calls' = Append(calls, [kind |-> "append",
                               children |-> chunkAt(remainingBlocks, appendAt)])
    /\ ppc' = "failed"
    /\ UNCHANGED notPush
    /\ UNCHANGED <<markdownFiles, fileIdx, successCount, errorCount, blocks,
                   remainingBlocks, appendAt, phist>>

\* ... the append request fails
AppendRequestFails ==
    /\ ppc = "append"
    /\ calls' = Append(calls, [kind |-> "append",
                               children |-> chunkAt(remainingBlocks, appendAt)])
    /\ Caught
    /\ UNCHANGED notPush
    /\ UNCHANGED <<markdownFiles, blocks, remainingBlocks, appendAt>>

PushStart(files, at) ==
    /\ ppc = at
    /\ markdownFiles \in files
    /\ fileIdx = 0
    /\ successCount = 0
    /\ errorCount = 0
    /\ blocks = <<>>
    /\ remainingBlocks = <<>>
    /\ appendAt = 0
    /\ calls = <<>>
    /\ phist = [outcomes |-> <<>>, created |-> {}, skipped |-> {}, callsFor |-> 0]

\* the process is the push script
PushInit == PushStart(SeqsUpTo(PushFiles, MaxFiles), "idle")
\* the process is not the push script
PushOff == PushStart({<<>>}, "off")

\* ------------------------------------- frontmatter: written, then read back
\* What a header line may hold after "title: ".
TitleChars == {"a", "\"", "'", " "}
RECURSIVE TextsUpTo(_, _)
TextsUpTo(S, n) ==
    IF n = 0 THEN {<<>>}
    ELSE LET shorter == TextsUpTo(S, n - 1)
         IN  shorter \cup {<<x>> \o q : q \in shorter, x \in S}
RawTitles == TextsUpTo(TitleChars, MaxTitleLen)
\* ... and after "tags: "; the empty text stands for a block without a tags line
RawTags ==
    { <<>>,
      <<"[", "]">>,
      <<"[", "a", "]">>,
      <<"[", "'", "a", "'", ",", " ", "\"", "b", "\"", "]">>,
      <<"[", "\"", "a", ",", "b", "\"", "]">>,
      <<"[", "a", "'", "]">> }
RawDates == {<<"2", "4", "-", "0", "1">>, <<"2", "4", "T", "1", ":", "0">>}

FrontmatterBlock(title, date, tags) ==
    <<Dashes, KeyTitle \o <<":", " ">> \o title, KeyDate \o <<":", " ">> \o date,
      KeySlug \o <<":", " ", "s">>>>
    \o (IF tags # <<>> THEN <<KeyTags \o <<":", " ">> \o tags>> ELSE <<>>)
    \o <<Dashes>>

\* `${frontmatter}\n\n${post.content}`
FileOf(block) == block \o <<<<>>, <<"x">>>>

\* the BlogPost the pull script holds for a parsed record
tagsOf(fm) == IF fm.tags.t = "arr" THEN fm.tags.v ELSE <<>>
slugOf(fm) == IF fm.slug.t = "str" THEN fm.slug.v ELSE <<>>
postOf(fm) ==
    [title |-> fm.title.v, date |-> fm.date.v, slug |-> slugOf(fm), tags |-> tagsOf(fm)]

\* a valid block: title and date are present, as strings
ValidRecord(fm) ==
    /\ fm.title.t = "str" /\ fm.title.v # <<>>
    /\ fm.date.t = "str" /\ fm.date.v # <<>>

\* parseFrontmatter reads the block F
FmParse ==
    /\ fpc = "input"
    /\ fRecord' = parseFrontmatter(FileOf(fInput)).frontmatter
    /\ fpc' = "parsed"
    /\ UNCHANGED notFm
    /\ UNCHANGED <<fInput, fWritten, fReparsed>>

\* the block is not a valid one: no title
FmReject ==
    /\ fpc = "parsed"
    /\ ~ValidRecord(fRecord)
    /\ fpc' = "rejected"
    /\ UNCHANGED notFm
    /\ UNCHANGED <<fInput, fRecord, fWritten, fReparsed>>

\* generateFrontmatter writes the record's title, date, slug and tags
FmGenerate ==
    /\ fpc = "parsed"
    /\ ValidRecord(fRecord)
    /\ fWritten' = generateFrontmatter(postOf(fRecord))
    /\ fpc' = "written"
    /\ UNCHANGED notFm
    /\ UNCHANGED <<fInput, fRecord, fReparsed>>

\* parseFrontmatter reads what generateFrontmatter wrote
FmReparse ==
    /\ fpc = "written"
    /\ fReparsed' = parseFrontmatter(FileOf(fWritten)).frontmatter
    /\ fpc' = "reparsed"
    /\ UNCHANGED notFm
    /\ UNCHANGED <<fInput, fRecord, fWritten>>

FmStart(inputs, at) ==
    /\ fpc = at
    /\ fInput \in inputs
    /\ fRecord = Undefined
    /\ fWritten = <<>>
    /\ fReparsed = Undefined

FmInit ==
    FmStart({FrontmatterBlock(t, d, g) : t \in RawTitles, d \in RawDates, g \in RawTags},
            "input")
FmOff == FmStart({<<>>}, "off")

\* ------------------------------ markdownToNotionBlocks, one iteration a step
MdLines ==
    { <<>>, <<" ">>, <<"a">>, <<"#", "a">>,
      <<"#", " ", "a">>, <<"#", "#", " ", "a">>, <<"#", "#", "#", " ", "a">>,
      <<"bq", "bq", "bq">>, <<"bq", "bq", "bq", "j", "s">>, <<"bq", "bq", "bq", " ">>,
      <<"-", " ", "a">>, <<"*", " ", "a">>, <<"1", ".", " ", "a">>, <<">", " ", "a">> }

\* one iteration of "while (i < lines.length)", by the rule that matches
MdRule(rule) ==
    /\ mpc = "scan"
    /\ mi <= Len(mLines)
    /\ LET step == scanStep(mLines, mi)
       IN  /\ step.rule = rule
           /\ mi' = step.next
           /\ mBlocks' = mBlocks \o step.push
    /\ mPrev' = [i |-> mi, n |-> Len(mBlocks)]
    /\ UNCHANGED notMd
    /\ UNCHANGED <<mpc, mLines>>

MdBlank == MdRule("blank")
MdHeading3 == MdRule("heading_3")
MdHeading2 == MdRule("heading_2")
MdHeading1 == MdRule("heading_1")
MdCode == MdRule("code")
MdBullet == MdRule("bulleted_list_item")
MdNumbered == MdRule("numbered_list_item")
MdQuote == MdRule("quote")
MdParagraph == MdRule("paragraph")

\* the loop ends: "return blocks"
MdReturn ==
    /\ mpc = "scan"
    /\ ~(mi <= Len(mLines))
    /\ mpc' = "done"
    /\ UNCHANGED notMd
    /\ UNCHANGED <<mLines, mi, mBlocks, mPrev>>

MdStart(inputs, at) ==
    /\ mpc = at
    /\ mLines \in inputs
    /\ mi = 1
    /\ mBlocks = <<>>
    /\ mPrev = [i |-> 0, n |-> 0]

\* markdown.split("\n") has at least one line
MdInit == MdStart(SeqsUpTo(MdLines, MaxBodyLines) \ {<<>>}, "scan")
MdOff == MdStart({<<<<>>>>}, "off")

\* --------------------------------------------------------- specifications
\* One process: the pull script (run again and again) or the push script.
Init ==
    /\ \/ PullInit /\ PushOff
       \/ PullOff /\ PushInit
    /\ FmOff
    /\ MdOff

Next ==
    \/ Tick \/ CreatePage \/ EditPage
    \/ StartPull \/ Query \/ QueryThrows \/ SkipPage \/ ConvertPage \/ ConvertThrows
    \/ NoPosts \/ GroupByYear \/ BeginYear \/ BeginYearThrows \/ WriteFile \/ WriteThrows
    \/ SaveState \/ SaveThrows \/ ProcessExit
    \/ StartPush \/ ScanThrows \/ ReadThrows \/ ParseThrows \/ SkipFile \/ PropertiesThrow
    \/ CreateRequest \/ CreateRequestFails \/ AppendRequest \/ AppendRequestFails

Spec == Init /\ [][Next]_vars

\* A frontmatter block written by the pull script and read back by the push script.
InitFm == PullOff /\ PushOff /\ FmInit /\ MdOff
NextFm == FmParse \/ FmReject \/ FmGenerate \/ FmReparse
SpecFm == InitFm /\ [][NextFm]_vars

\* markdownToNotionBlocks on every text of up to MaxBodyLines lines.
InitMd == PullOff /\ PushOff /\ FmOff /\ MdInit
NextMd ==
    \/ MdBlank \/ MdHeading3 \/ MdHeading2 \/ MdHeading1 \/ MdCode \/ MdBullet
    \/ MdNumbered \/ MdQuote \/ MdParagraph \/ MdReturn
SpecMd == InitMd /\ [][NextMd]_vars

\* ------------------------------------------------------------------ claims
InPull == pc \notin {"off", "idle"}
InPush == ppc \notin {"off", "idle"}

\* C1: the sync-state file is written only when the pull completes: while a run is
\* in progress or has thrown, the file is what it was when the run started; when
\* the run has returned, it was written exactly once, after every file write of
\* the run, and every fetched post was written.
C1_StateSavedOnlyOnSuccess ==
    /\ pc \in {"query", "year", "write", "failed"} =>
          /\ stateFile = hist.stateAtStart
          /\ hist.stateWrites = 0
    /\ pc = "done" =>
          /\ hist.stateWrites = 1
          /\ hist.writesAtSave = hist.fileWrites
          /\ hist.fileWrites = hist.nPosts
          /\ stateFile.kind = "json"

\* C1 witness: a second run, with a state stored by the first, wrote a file and
\* then threw on the next write; the stored state is still the first run's.
C1_Witness ==
    /\ pc = "failed" /\ hist.failCause = "write"
    /\ hist.fileWrites >= 1
    /\ hist.stateAtStart.kind = "json"
    /\ stateFile = hist.stateAtStart

\* C2: the lastSyncTime a successful pull saves is the instant at which the run
\* started, not later than any of its query calls; so every page edited after the
\* start of the last successful pull satisfies the filter of each query call of
\* the run that follows.
C2_SavedInstantPrecedesQuery ==
    /\ pc = "done" =>
          /\ stateFile = JsonFile(Some(hist.runStart))
          /\ \A k \in 1..Len(queries) : hist.runStart <= queries[k].at
    /\ pc \in {"query", "year", "write"} =>
          \A k \in 1..Len(queries) : \A id \in 1..Len(pages) :
             pages[id].edited > hist.lastSuccessStart
                => Matches(queries[k].filter, pages[id])

\* C2 witness: an incremental query is out, a page edited after the start of the
\* last successful pull passes its filter and an older page does not.
C2_Witness ==
    /\ pc = "query" /\ queries # <<>>
    /\ hist.lastSuccessStart > 0
    /\ queries[1].filter # Nothing
    /\ \E id \in 1..Len(pages) : pages[id].edited > hist.lastSuccessStart
    /\ \E id \in 1..Len(pages) : ~Matches(queries[1].filter, pages[id])

\* the concatenation of the children of a sequence of requests
RECURSIVE ChildrenOf(_)
ChildrenOf(cs) ==
    IF cs = <<>> THEN <<>> ELSE Head(cs).children \o ChildrenOf(Tail(cs))
\* ceil(max(n - 100, 0) / 100)
AppendsNeeded(n) == IF n <= 100 THEN 0 ELSE (n - 100 + 99) \div 100

\* C3: for the N blocks of a post, createNotionPage sends the creation request with
\* the first min(N, 100) blocks and then append requests of at most 100 blocks
\* each, in order; what has been sent is always a prefix of the blocks, and when
\* the publish has succeeded there were ceil(max(N - 100, 0) / 100) appends whose
\* children, after the creation's, make up the blocks.
C3_Chunking ==
    (InPush /\ calls # <<>>) =>
        LET N == Len(blocks)
            sent == ChildrenOf(calls)
        IN  /\ calls[1].kind = "create"
            /\ calls[1].children = SubSeq(blocks, 1, IF N < 100 THEN N ELSE 100)
            /\ \A k \in 2..Len(calls) :
                  /\ calls[k].kind = "append"
                  /\ Len(calls[k].children) \in 1..100
            /\ Len(calls) <= 1 + AppendsNeeded(N)
            /\ sent = SubSeq(blocks, 1, Len(sent))
            /\ (/\ Len(phist.outcomes) >= phist.callsFor
                /\ phist.outcomes[phist.callsFor] = "success")
                  => /\ Len(calls) = 1 + AppendsNeeded(N)
                     /\ sent = blocks

\* C3 witness: 250 blocks were published as 100, 100 and 50.
C3_Witness ==
    /\ InPush /\ Len(blocks) = 250 /\ Len(calls) = 3
    /\ Len(phist.outcomes) >= phist.callsFor
    /\ phist.outcomes[phist.callsFor] = "success"
    /\ Len(calls[1].children) = 100
    /\ Len(calls[2].children) = 100
    /\ Len(calls[3].children) = 50

RECURSIVE CountOf(_, _)
CountOf(outcomes, what) ==
    IF outcomes = <<>> THEN 0
    ELSE (IF Head(outcomes) = what THEN 1 ELSE 0) + CountOf(Tail(outcomes), what)

\* C4: in the push loop a failure is caught for its file only: each file gets one
\* outcome, in order; the loop is never left before the end of the list (only the
\* scan before it can fail the run); successCount + errorCount is the number of
\* files processed, at the end the number of files discovered, and successCount
\* is the number of files published without error.
C4_PerFileIsolation ==
    ppc # "off" =>
        /\ successCount + errorCount = Len(phist.outcomes)
        /\ successCount = CountOf(phist.outcomes, "success")
        /\ ppc \in {"loop", "append"} =>
              /\ fileIdx = Len(phist.outcomes) + 1
              /\ fileIdx <= Len(markdownFiles)
        /\ ppc = "done" => Len(phist.outcomes) = Len(markdownFiles)
        /\ ppc = "failed" => fileIdx = 0

\* C4 witness: of two files the first had its page created and an append request
\* failed, the second was published; the run reached its end.
C4_Witness ==
    /\ ppc = "done"
    /\ phist.outcomes = <<"error", "success">>
    /\ 1 \in phist.created
    /\ successCount = 1 /\ errorCount = 1

\* C5 (as claimed): in both directions an item without title or date is skipped
\* without aborting the batch: no page is created (push) or file written (pull)
\* for it, the other items are processed, and the error count the run ends with
\* counts the skip.
C5_SkipCounted ==
    /\ ppc = "done" =>
          /\ phist.skipped \cap phist.created = {}
          /\ Len(phist.outcomes) = Len(markdownFiles)
          /\ errorCount >= Cardinality(phist.skipped)
    /\ pc = "done" =>
          /\ \A f \in DOMAIN dir : dir[f].id \notin hist.skipped
          /\ hist.nPosts = Cardinality(hist.returned \ hist.skipped)
          /\ pullErrorCount >= Cardinality(hist.skipped)

\* the numeric prefix of a file name, 0 when it has none
PrefixOf(name) == IF IndexMatch(name) # <<>> THEN ParseInt(IndexMatch(name)) ELSE 0
\* the highest numeric prefix among the .md files of year y in directory d
MaxPrefix(d, y) ==
    LET S == {PrefixOf(f) : f \in readMdFiles(d, y)} \cup {0}
    IN  CHOOSE m \in S : \A n \in S : n <= m
\* the files the run has created in year y, in the order of creation
CreatedIn(y) == SelectSeq(hist.created, LAMBDA c : c.year = y)
Years == {getYearFromDate(d) : d \in Dates}

C7_OneFilePerSlug ==
    \A f \in DOMAIN dir : \A g \in DOMAIN dir :
        (/\ f[1] = g[1]
         /\ dir[f].id # 0 /\ dir[g].id # 0
         /\ dir[f].slug = dir[g].slug) => f = g

\* equivalent values of a frontmatter field
SameValue(a, b) == a.t = b.t /\ (a.t # "undef" => a.v = b.v)

\* C8 (as claimed): for a valid frontmatter block F with record R, the block that
\* generateFrontmatter writes for R's title, date, slug and tags parses back to the
\* same title, date, slug and tags, also for titles that contain double quotes and
\* tags that contain commas or quotes.
C8_RoundTrip ==
    fpc = "reparsed" =>
        /\ SameValue(fReparsed.title, fRecord.title)
        /\ SameValue(fReparsed.date, fRecord.date)
        /\ slugOf(fReparsed) = slugOf(fRecord)
        /\ tagsOf(fReparsed) = tagsOf(fRecord)

\* the filter a run must use for the state file it started with
ExpectedFilter(file) == IF file.kind = "json" THEN file.lastSyncTime ELSE Nothing

\* C9: every query call of a pull run carries the filter "last_edited_time after T"
\* exactly when the state file the run started with was read with lastSyncTime = T,
\* and no filter when that file is absent or corrupt; the calls of one run all
\* carry the same filter; and loading the state never fails the run.
C9_FilterIffStateLoaded ==
    InPull =>
        /\ \A k \in 1..Len(queries) :
              queries[k].filter = ExpectedFilter(hist.stateAtStart)
        /\ hist.failCause # "load"

\* C9 witness: a run that started from a corrupt state file is past its second
\* query call, the one with a cursor; neither call carried a filter.
C9_Witness ==
    /\ pc = "query" /\ Len(queries) >= 2
    /\ hist.stateAtStart = CorruptFile
    /\ queries[2].cursor # 0
    /\ queries[2].filter = Nothing

\* the iteration that has just run started at an opening fence with no closing
\* fence after it
UnterminatedFence ==
    /\ mPrev.i >= 1
    /\ StartsWith(mLines[mPrev.i], Fence)
    /\ \A j \in (mPrev.i + 1)..Len(mLines) : ~StartsWith(mLines[j], Fence)

\* C10: markdownToNotionBlocks terminates and never raises: each iteration moves
\* the cursor forward, while the cursor is inside the text some rule applies, and
\* past the text the function returns; an opening fence with no closing fence
\* yields exactly one code block, its text all the remaining lines joined by
\* newlines and its language the tag after the fence ("plain text" when there is
\* none), and no block after it.
C10_ScanTerminates ==
    mpc # "off" =>
        /\ mi > mPrev.i
        /\ mi <= Len(mLines) + 2
        /\ mpc = "scan" => ENABLED NextMd
        /\ UnterminatedFence =>
              LET tag == Trim(Slice(mLines[mPrev.i], 3))
              IN  /\ Len(mBlocks) = mPrev.n + 1
                  /\ mBlocks[Len(mBlocks)] =
                        CodeBlock(Join(SubSeq(mLines, mPrev.i + 1, Len(mLines)), Newline),
                                  IF tag # <<>> THEN tag ELSE PlainText)
                  /\ mi > Len(mLines)

\* C10 witness: after a first block, an opening fence without tag and without
\* closing fence took the two lines that follow it, one of them blank, and the
\* function has returned.
C10_Witness ==
    /\ mpc = "done"
    /\ UnterminatedFence
    /\ mPrev.i = 2 /\ mPrev.n = 1
    /\ Len(mLines) = 4
    /\ Trim(mLines[3]) = <<>>
    /\ mBlocks[2].language = PlainText

\* the slug segment of a file name: the name without its numeric "NN-" prefix and
\* without its ".md" suffix
SlugSegment(name) ==
    LET ds == IndexMatch(name)
        rest == IF ds # <<>> THEN Slice(name, Len(ds) + 1) ELSE name
    IN  IF EndsWith(rest, MdSuffix) THEN SubSeq(rest, 1, Len(rest) - Len(MdSuffix))
        ELSE rest

\* C11 (as claimed): a pulled post is written over an existing file of its year
\* directory only if the slug segment of that file's name is exactly the post's
\* slug; a post whose slug is only a substring of a file name, or is empty, gets a
\* new file, so every file a pull has written carries the slug of the post in it.
C11_ExactSlugMatch ==
    \A f \in DOMAIN dir : dir[f].id # 0 => SlugSegment(f[2]) = dir[f].slug

====
